---- MODULE Spec2Model ----
(***************************************************************************)
(* State-machine model of src/src/yunohost/permission.py: the permission   *)
(* entries of the LDAP directory (ou=permission), the group directory the  *)
(* code reads, and one action per public operation of the module.          *)
(*                                                                         *)
(* Python values are represented as follows.                               *)
(*   - a str that the code inspects character by character (an url, the    *)
(*     "all_users" literal handed to set()) is the sequence of its         *)
(*     characters; a list is the sequence of its items;                    *)
(*   - an optional argument is a sequence of length at most one:           *)
(*     <<>> is None and <<x>> is the value x;                              *)
(*   - a permission name is the record [app, sub], sub = "" when the name  *)
(*     holds no "." (so name.split(".")[0] is .app);                       *)
(*   - an exception is the err field of an operation's outcome, "none"     *)
(*     when the call returns.                                              *)
(***************************************************************************)
EXTENDS Integers, Sequences, FiniteSets, TLC

VARIABLES store, groups, last, pending

vars == <<store, groups, last, pending>>

(***************************************************************************)
(* Bounds and the finite universe of the model.                            *)
(***************************************************************************)
MaxPerms == 1

Users == {"u1", "u2"}

\* Groups of the group directory: the two special groups and one custom group.
GroupNames == {"all_users", "visitors", "grpA"}

\* Apps whose permissions the model manipulates: the three system
\* permissions the specification names, and one installed web app.
Apps == {"mail", "xmpp", "sftp", "myapp"}

Identities ==
  {[app |-> a, sub |-> "main"] : a \in Apps} \cup {[app |-> "myapp", sub |-> "editors"]}

\* Names a caller passes: every identity, and the bare app ids.
Names == Identities \cup {[app |-> a, sub |-> ""] : a \in Apps}

None == <<>>

Some(x) == <<x>>

Range(s) == {s[i] : i \in DOMAIN s}

(***************************************************************************)
(* Program constants.                                                      *)
(***************************************************************************)
SYSTEM_PERMS == {"mail", "xmpp", "stfp"}

\* The literal "all_users" of user_permission_reset, as a Python str.
STR_all_users == <<"a", "l", "l", "_", "u", "s", "e", "r", "s">>

\* app_settings of user_permission_list: domain + path of each installed app.
app_settings == [a \in {"myapp"} |-> <<"d", "/", "m">>]

(***************************************************************************)
(* Strings.                                                                *)
(***************************************************************************)
\* str(permission) for a name with its "." (or without, for a bare app id).
NameStr(n) == IF n.sub = "" THEN n.app ELSE n.app \o "." \o n.sub

\* s.startswith(pre)
StartsWith(s, pre) == Len(s) >= Len(pre) /\ SubSeq(s, 1, Len(pre)) = pre

\* s.rstrip(chars): drop every trailing character that is in chars.
RECURSIVE RStrip(_, _)
RStrip(s, chars) ==
  IF s # <<>> /\ s[Len(s)] \in chars THEN RStrip(SubSeq(s, 1, Len(s) - 1), chars) ELSE s

\* s.lstrip(chars): drop every leading character that is in chars.
RECURSIVE LStrip(_, _)
LStrip(s, chars) ==
  IF s # <<>> /\ s[1] \in chars THEN LStrip(Tail(s), chars) ELSE s

\* str(b).upper() for a Python bool.
BoolToken(b) == IF b THEN "TRUE" ELSE "FALSE"

\* False if stored == "FALSE" else True
TokenBool(tok) == IF tok = "FALSE" THEN FALSE ELSE TRUE

(***************************************************************************)
(* Directory entries.                                                      *)
(***************************************************************************)
GroupDN(g) == [cn |-> g, ou |-> "groups"]

UserDN(u) == [uid |-> u, ou |-> "users"]

\* _ldap_path_extract(dn, "cn") / _ldap_path_extract(dn, "uid")
LdapPathExtractCn(dn) == dn.cn

LdapPathExtractUid(dn) == dn.uid

\* attr_dict of permission_create: the entry ldap.add writes.
NewEntry(permission) ==
  [groupPermission |-> {}, inheritPermission |-> {}, memberUid |-> {},
   URL |-> None, additionalUrls |-> {},
   authHeader |-> "TRUE", label |-> Some(NameStr(permission)),
   showTile |-> "FALSE", isProtected |-> "FALSE"]

\* ldap.update(cn, delta): the attributes of delta replace the stored ones.
LdapUpdate(st, cn, delta) ==
  [st EXCEPT ![cn] = [a \in DOMAIN st[cn] |-> IF a \in DOMAIN delta THEN delta[a] ELSE st[cn][a]]]

\* ldap.add(cn, attrs)
LdapAdd(st, cn, attrs) == [c \in DOMAIN st \cup {cn} |-> IF c = cn THEN attrs ELSE st[c]]

\* ldap.remove(cn)
LdapRemove(st, cn) == [c \in DOMAIN st \ {cn} |-> st[c]]

(***************************************************************************)
(* user_permission_list(full=True, ...)                                    *)
(***************************************************************************)
\* _complete_url(url, name), url an optional str.
\* Raises KeyError when the app has no settings: see CompleteUrlRaises.
complete_url(url, name) ==
  IF url = None THEN None
  ELSE IF StartsWith(url[1], <<"/">>)
       THEN Some(app_settings[name.app] \o RStrip(url[1], {"/"}))
  ELSE IF StartsWith(url[1], <<"r", "e", ":", "/">>)
       THEN Some(<<"r", "e", ":">> \o app_settings[name.app]
                 \o LStrip(url[1], {"r", "e", ":", "/"}))
  ELSE url

CompleteUrlRaises(url, name) ==
  /\ url # None
  /\ StartsWith(url[1], <<"/">>) \/ StartsWith(url[1], <<"r", "e", ":", "/">>)
  /\ name.app \notin DOMAIN app_settings

\* infos.get("additionalUrls", [None]): an absent attribute reads as [None].
RawAdditionalUrls(infos) ==
  IF infos.additionalUrls = {} THEN {None} ELSE {Some(u) : u \in infos.additionalUrls}

\* The record of one permission in the listing (full=True).
PermissionInfos(infos, name, full_path) ==
  [allowed |-> {LdapPathExtractCn(p) : p \in infos.groupPermission},
   corresponding_users |-> {LdapPathExtractUid(p) : p \in infos.inheritPermission},
   auth_header |-> TokenBool(infos.authHeader),
   label |-> infos.label,
   show_tile |-> TokenBool(infos.showTile),
   protected |-> TokenBool(infos.isProtected),
   url |-> IF full_path /\ name.app \notin SYSTEM_PERMS
           THEN complete_url(infos.URL, name) ELSE infos.URL,
   additional_urls |-> IF full_path /\ name.app \notin SYSTEM_PERMS
                       THEN {complete_url(u, name) : u \in RawAdditionalUrls(infos)}
                       ELSE RawAdditionalUrls(infos)]

\* user_permission_list(full=True, full_path=...)["permissions"]
user_permission_list(st, ignore_system_perms, full_path) ==
  [name \in {n \in DOMAIN st : ~(ignore_system_perms /\ n.app \in SYSTEM_PERMS)} |->
     PermissionInfos(st[name], name, full_path)]

\* Whether user_permission_list(full=True, full_path=True) raises KeyError.
ListRaises(st) ==
  \E name \in DOMAIN st :
    /\ name.app \notin SYSTEM_PERMS
    /\ \E u \in {st[name].URL} \cup RawAdditionalUrls(st[name]) : CompleteUrlRaises(u, name)

(***************************************************************************)
(* Outcomes.  An operation yields the set of its possible outcomes: the    *)
(* store it leaves, the exception it raised ("none" when it returned),     *)
(* the name carried by that exception, the store writes it issued, whether *)
(* a synchronisation pass ran and how it ended, the warnings it logged,    *)
(* what it returned and the hooks it called.                               *)
(***************************************************************************)
NoName == [app |-> "", sub |-> ""]

\* No store operation fails.
NoFault == [kind |-> "none", at |-> NoName]

\* The store operations one call can see fail: ldap.add, the two kinds of
\* ldap.update of a permission's own attributes, ldap.remove, and the
\* ldap.update of the inheritance fields of one permission.
Faults ==
  {NoFault} \cup {[kind |-> k, at |-> NoName] : k \in {"add", "groups", "urls", "remove"}}
            \cup {[kind |-> "inherit", at |-> p] : p \in Identities}

Outcome(st, err, errArg, writes, sync) ==
  [st |-> st, err |-> err, errArg |-> errArg, writes |-> writes, sync |-> sync,
   warnings |-> {}, ret |-> None, events |-> <<>>]

\* raise YunohostError(err, ...=errArg), the store left as st.
Raise(st, err, errArg, writes) == Outcome(st, err, errArg, writes, "none")

\* The iteration orders of a dict with these keys.
Orders(S) == {o \in [1..Cardinality(S) -> S] : Range(o) = S}

\* Some list holding the items of S.
RECURSIVE AsList(_)
AsList(S) ==
  IF S = {} THEN <<>> ELSE LET x == CHOOSE y \in S : TRUE IN <<x>> \o AsList(S \ {x})

\* "." not in permission  =>  permission + ".main"
MainByDefault(permission) ==
  IF permission.sub = "" THEN [app |-> permission.app, sub |-> "main"] ELSE permission

(***************************************************************************)
(* permission_sync_to_user                                                 *)
(***************************************************************************)
\* Mutant: nobody is found in the allowed groups.
should_be_allowed_users_Nobody(infos, grps) == {}

\* set([user for group in infos["allowed"] for user in groups[group]["members"]])
should_be_allowed_users(infos, grps) == UNION {grps[g] : g \in infos.allowed}

\* Mutant: a permission whose users are a part of those it should have is
\* taken to be synchronized.
AlreadySynchronized_Subset(infos, grps) ==
  infos.corresponding_users \subseteq should_be_allowed_users(infos, grps)

\* Mutant: no check before the write.
AlreadySynchronized_Never(infos, grps) == FALSE

\* The permission needs no write: line 471.
AlreadySynchronized(infos, grps) ==
  infos.corresponding_users = should_be_allowed_users(infos, grps)

\* The write of one permission's inheritance fields fails: line 481.
InheritWriteFails(fault, permission_name) ==
  fault.kind = "inherit" /\ fault.at = permission_name

\* Mutant: the mirrored list is written, the membership list is not.
new_inherited_perms_MemberUidOnly(should) == [memberUid |-> should]

\* new_inherited_perms
new_inherited_perms(should) ==
  [inheritPermission |-> {UserDN(u) : u \in should}, memberUid |-> should]

\* The for loop of permission_sync_to_user over the permissions in `order`.
RECURSIVE SyncLoop(_, _, _, _, _, _)
SyncLoop(st, permissions, grps, order, fault, written) ==
  IF order = <<>> THEN Outcome(st, "none", "", written, "ok")
  ELSE
    LET permission_name == Head(order)
        permission_infos == permissions[permission_name]
    IN IF \E g \in permission_infos.allowed : g \notin DOMAIN grps
       THEN Outcome(st, "KeyError", "", written, "failed")
       ELSE IF AlreadySynchronized(permission_infos, grps)
       THEN SyncLoop(st, permissions, grps, Tail(order), fault, written)
       ELSE IF InheritWriteFails(fault, permission_name)
       THEN Outcome(st, "permission_update_failed", NameStr(permission_name),
                    written, "failed")
       ELSE SyncLoop(LdapUpdate(st, permission_name,
                                new_inherited_perms(
                                  should_be_allowed_users(permission_infos, grps))),
                     permissions, grps, Tail(order), fault,
                     written \cup {<<"inherit", permission_name>>})

permission_sync_to_user(st, grps, fault) ==
  {SyncLoop(st, user_permission_list(st, FALSE, FALSE), grps, o, fault, {})
     : o \in Orders(DOMAIN st)}

\* `if sync_perm: permission_sync_to_user()` after the writes `w` of the caller.
MaybeSync(st, grps, sync_perm, fault, w) ==
  IF sync_perm
  THEN {[r EXCEPT !.writes = w \cup r.writes] : r \in permission_sync_to_user(st, grps, fault)}
  ELSE {Outcome(st, "none", "", w, "none")}

(***************************************************************************)
(* _update_ldap_group_permission                                           *)
(***************************************************************************)
\* str(label)
PyStr(label) == IF label = None THEN "None" ELSE label[1]

\* Mutant: a group that is one of the added (removed) users is still
\* reported as an added (removed) group.
HookCallbacks_KeepsUserGroups(permission, old, new) ==
  LET added_users == new.corresponding_users \ old.corresponding_users
      removed_users == old.corresponding_users \ new.corresponding_users
      added_group == new.allowed \ old.allowed
      removed_group == old.allowed \ new.allowed
  IN (IF added_users # {} \/ added_group # {}
      THEN <<[hook |-> "post_app_addaccess", app |-> permission.app, users |-> added_users,
              sub |-> permission.sub, groups |-> added_group]>> ELSE <<>>)
     \o (IF removed_users # {} \/ removed_group # {}
         THEN <<[hook |-> "post_app_removeaccess", app |-> permission.app,
                 users |-> removed_users, sub |-> permission.sub,
                 groups |-> removed_group]>> ELSE <<>>)

\* Mutant: the hooks carry no group.
HookCallbacks_NoGroupDiff(permission, old, new) ==
  LET added_users == new.corresponding_users \ old.corresponding_users
      removed_users == old.corresponding_users \ new.corresponding_users
  IN (IF added_users # {}
      THEN <<[hook |-> "post_app_addaccess", app |-> permission.app, users |-> added_users,
              sub |-> permission.sub, groups |-> {}]>> ELSE <<>>)
     \o (IF removed_users # {}
         THEN <<[hook |-> "post_app_removeaccess", app |-> permission.app,
                 users |-> removed_users, sub |-> permission.sub, groups |-> {}]>>
         ELSE <<>>)

\* The hooks called for the change from `old` to `new` (lines 559-574).
HookCallbacks(permission, old, new) ==
  LET effectively_added_users == new.corresponding_users \ old.corresponding_users
      effectively_removed_users == old.corresponding_users \ new.corresponding_users
      effectively_added_group == (new.allowed \ old.allowed) \ effectively_added_users
      effectively_removed_group == (old.allowed \ new.allowed) \ effectively_removed_users
      addaccess == [hook |-> "post_app_addaccess", app |-> permission.app,
                    users |-> effectively_added_users, sub |-> permission.sub,
                    groups |-> effectively_added_group]
      removeaccess == [hook |-> "post_app_removeaccess", app |-> permission.app,
                       users |-> effectively_removed_users, sub |-> permission.sub,
                       groups |-> effectively_removed_group]
  IN (IF effectively_added_users # {} \/ effectively_added_group # {}
      THEN <<addaccess>> ELSE <<>>)
     \o (IF effectively_removed_users # {} \/ effectively_removed_group # {}
         THEN <<removeaccess>> ELSE <<>>)

\* set(allowed), for allowed a Python sequence: a list of names, or a str.
PySet(allowed) == Range(allowed)

\* Mutant: the groups allowed when the write is issued are kept.
GroupPermissionDelta_Merging(existing, allowed, label, show_tile, protected) ==
  [groupPermission |->
     {GroupDN(g) : g \in existing.allowed
                        \cup (IF allowed = None THEN {} ELSE Range(allowed[1]))},
   label |-> existing.label,
   showTile |-> BoolToken(existing.show_tile),
   isProtected |-> BoolToken(existing.protected)]

\* Lines 521-543: the values written, from the arguments and the existing record.
GroupPermissionDelta(existing, allowed, label, show_tile, protected) ==
  LET allowed_set == IF allowed = None THEN existing.allowed ELSE PySet(allowed[1])
      label1 == IF label = None THEN existing.label ELSE label
      show_tile1 == IF show_tile = None THEN existing.show_tile ELSE show_tile[1]
      protected1 == IF protected = None THEN existing.protected ELSE protected[1]
  IN [groupPermission |-> {GroupDN(g) : g \in allowed_set},
      label |-> IF label1 = Some("") THEN None ELSE Some(PyStr(label1)),
      showTile |-> BoolToken(show_tile1),
      isProtected |-> BoolToken(protected1)]

\* The permission exists in st (the function's first documented assumption);
\* w are the writes of the caller so far.
update_ldap_group_permission(st, grps, permission, allowed, label, show_tile, protected, sync_perm, fault, w) ==
  LET existing_permission == user_permission_list(st, FALSE, FALSE)[permission]
      st1 == LdapUpdate(st, permission,
                        GroupPermissionDelta(existing_permission, allowed, label,
                                             show_tile, protected))
      w1 == w \cup {<<"groups", permission>>}
  IN IF fault.kind = "groups"
     THEN {Raise(st, "permission_update_failed", NameStr(permission), w)}
     ELSE {IF r.err # "none" THEN r
           ELSE IF ListRaises(r.st) THEN [r EXCEPT !.err = "KeyError"]
           ELSE LET new_permission == user_permission_list(r.st, FALSE, TRUE)[permission]
                IN [r EXCEPT !.ret = Some(new_permission),
                             !.events = HookCallbacks(permission, existing_permission,
                                                      new_permission)]
             : r \in MaybeSync(st1, grps, sync_perm, fault, w1)}

(***************************************************************************)
(* user_permission_update                                                  *)
(***************************************************************************)
\* Line 129: "visitors" added to a system permission.
RequiresAccount(permission, add) ==
  "visitors" \in Range(add) /\ permission.app \in SYSTEM_PERMS

\* Lines 133-134 read existing_permission["protected"] as soon as "visitors"
\* is among the groups to add or to remove.
ReadsProtected(add, remove) == "visitors" \in Range(add) \/ "visitors" \in Range(remove)

\* Mutant: the removal of "visitors" is not guarded.
RefusedAsProtected_AddOnly(existing, add, remove, force) ==
  "visitors" \in Range(add) /\ existing.protected /\ ~force

\* Lines 133-134, for an existing permission.
RefusedAsProtected(existing, add, remove, force) ==
  /\ \/ "visitors" \in Range(add) /\ existing.protected
     \/ "visitors" \in Range(remove) /\ existing.protected
  /\ ~force

\* Mutant: the removals are applied before the additions.
new_allowed_groups_RemoveFirst(current_allowed_groups, add, remove) ==
  (current_allowed_groups \ Range(remove)) \cup Range(add)

\* Lines 147-169: the new list of allowed groups.
new_allowed_groups(current_allowed_groups, add, remove) ==
  LET added == current_allowed_groups \cup (Range(add) \ current_allowed_groups)
  IN IF remove # <<>> THEN added \ Range(remove) ELSE added

\* Lines 176-178
WarnsAllowedForAllUsers(new_allowed) ==
  /\ "all_users" \in new_allowed /\ Cardinality(new_allowed) >= 2
  /\ "visitors" \notin new_allowed \/ Cardinality(new_allowed) >= 3

UpdateWarnings(permission, current, add, remove, new_allowed) ==
  {"permission_already_allowed" : g \in Range(add) \cap current}
  \cup {"permission_already_disallowed" : g \in Range(remove) \ current}
  \cup (IF WarnsAllowedForAllUsers(new_allowed)
        THEN {"permission_currently_allowed_for_all_users"} ELSE {})

\* Lines 129-189, `listing` being what user_permission_list returned at
\* line 126 and st the store when the rest runs (the same store, unless
\* another call wrote in between).
user_permission_update_from(listing, st, grps, name, add, remove, label, show_tile, protected, force, sync_perm, fault) ==
  LET permission == MainByDefault(name)
      exists == permission \in DOMAIN listing
      unknown == {i \in DOMAIN add : add[i] \notin DOMAIN grps}
  IN IF RequiresAccount(permission, add)
     THEN {Raise(st, "permission_require_account", NameStr(permission), {})}
     ELSE IF ~exists /\ ReadsProtected(add, remove)
     THEN {Raise(st, "TypeError", "", {})}
     ELSE IF exists /\ RefusedAsProtected(listing[permission], add, remove, force)
     THEN {Raise(st, "permission_protected", NameStr(permission), {})}
     ELSE IF ~exists
     THEN {Raise(st, "permission_not_found", NameStr(permission), {})}
     ELSE IF unknown # {}
     THEN {Raise(st, "group_unknown", add[CHOOSE i \in unknown : \A j \in unknown : i <= j], {})}
     ELSE IF permission \notin DOMAIN st
     THEN {Raise(st, "KeyError", "", {})}
     ELSE LET current == listing[permission].allowed
              new_allowed == new_allowed_groups(current, add, remove)
          IN {[r EXCEPT !.warnings = UpdateWarnings(permission, current, add, remove,
                                                    new_allowed)]
                : r \in update_ldap_group_permission(st, grps, permission,
                          Some(AsList(new_allowed)), label, show_tile, protected,
                          sync_perm, fault, {})}

user_permission_update(st, grps, name, add, remove, label, show_tile, protected, force, sync_perm, fault) ==
  user_permission_update_from(user_permission_list(st, FALSE, FALSE), st, grps, name, add,
                              remove, label, show_tile, protected, force, sync_perm, fault)

(***************************************************************************)
(* user_permission_reset                                                   *)
(***************************************************************************)
\* existing_permission["allowed"] == ["all_users"]
AlreadyUpToDate(existing) == existing.allowed = {"all_users"}

\* The `allowed` argument of line 220.
ResetAllowed == Some(STR_all_users)

user_permission_reset(st, grps, name, sync_perm, fault) ==
  LET permission == MainByDefault(name)
      listing == user_permission_list(st, FALSE, FALSE)
  IN IF permission \notin DOMAIN listing
     THEN {Raise(st, "permission_not_found", NameStr(permission), {})}
     ELSE IF AlreadyUpToDate(listing[permission])
     THEN {[Outcome(st, "none", "", {}, "none")
              EXCEPT !.warnings = {"permission_already_up_to_date"}]}
     ELSE update_ldap_group_permission(st, grps, permission, ResetAllowed, None, None,
                                       None, sync_perm, fault, {})

(***************************************************************************)
(* permission_url                                                          *)
(***************************************************************************)
\* _check_and_normalize_permission_path(url) of yunohost.domain, for a str:
\* the path without its trailing slashes ("/" itself is kept).
check_and_normalize_permission_path(url) ==
  IF Len(url) > 1 /\ url[1] = "/" THEN RStrip(url, {"/"}) ELSE url

\* Lines 364-376.  `url` is the url of line 356-359 (not the loop variable):
\* it is what line 369 normalizes and appends.
new_additional_urls(current, url, add_url, remove_url) ==
  LET appended == IF \E i \in DOMAIN add_url : Some(add_url[i]) \notin current
                  THEN current \cup {Some(check_and_normalize_permission_path(url[1]))}
                  ELSE current
  IN IF remove_url # <<>>
     THEN {u \in appended : ~(u # None /\ u[1] \in Range(remove_url))}
     ELSE appended

\* Line 369 hands None to _check_and_normalize_permission_path.
NormalizesNone(current, url, add_url) ==
  url = None /\ \E i \in DOMAIN add_url : Some(add_url[i]) \notin current

UrlWarnings(current, add_url, remove_url) ==
  {"additional_urls_already_added" : i \in {j \in DOMAIN add_url : Some(add_url[j]) \in current}}
  \cup {"additional_urls_already_removed"
          : i \in {j \in DOMAIN remove_url : Some(remove_url[j]) \notin current}}

\* Mutant: the authentication header flag is written inverted.
UrlDelta_AuthHeaderInverted(url, additional_urls, auth_header) ==
  [URL |-> url,
   additionalUrls |-> {u[1] : u \in additional_urls \ {None}},
   authHeader |-> BoolToken(~auth_header)]

\* The delta of line 394; the store keeps no None among an attribute's values.
UrlDelta(url, additional_urls, auth_header) ==
  [URL |-> url,
   additionalUrls |-> {u[1] : u \in additional_urls \ {None}},
   authHeader |-> BoolToken(auth_header)]

permission_url(st, grps, name, url, add_url, remove_url, auth_header, clear_urls, sync_perm, fault, w) ==
  LET permission == MainByDefault(name)
      listing == user_permission_list(st, FALSE, FALSE)
  IN IF permission \notin DOMAIN listing
     THEN {Raise(st, "permission_not_found", NameStr(permission), w)}
     ELSE
       LET existing_permission == listing[permission]
           url1 == IF url = None THEN existing_permission.url
                   ELSE Some(check_and_normalize_permission_path(url[1]))
           current_additional_urls == existing_permission.additional_urls
           auth_header1 == IF auth_header = None THEN existing_permission.auth_header
                           ELSE auth_header[1]
       IN IF NormalizesNone(current_additional_urls, url1, add_url)
          THEN {Raise(st, "AttributeError", "", w)}
          ELSE IF fault.kind = "urls"
          THEN {Raise(st, "permission_update_failed", NameStr(permission), w)}
          ELSE
            LET new_urls == new_additional_urls(current_additional_urls, url1, add_url,
                                                remove_url)
                st1 == LdapUpdate(st, permission,
                         UrlDelta(IF clear_urls THEN None ELSE url1,
                                  IF clear_urls THEN {} ELSE new_urls, auth_header1))
            IN {IF r.err # "none" THEN r
                ELSE IF ListRaises(r.st) THEN [r EXCEPT !.err = "KeyError"]
                ELSE [r EXCEPT !.ret = Some(user_permission_list(r.st, FALSE, TRUE)[permission]),
                               !.warnings = UrlWarnings(current_additional_urls, add_url,
                                                        remove_url)]
                  : r \in MaybeSync(st1, grps, sync_perm, fault,
                                    w \cup {<<"urls", permission>>})}

(***************************************************************************)
(* permission_delete                                                       *)
(***************************************************************************)
\* Mutant: force does not lift the protection of a main permission.
CannotRemoveMain_IgnoresForce(permission, force) == permission.sub = "main"

\* permission.endswith(".main") and not force
CannotRemoveMain(permission, force) == permission.sub = "main" /\ ~force

permission_delete(st, grps, name, force, sync_perm, fault) ==
  LET permission == MainByDefault(name)
  IN IF CannotRemoveMain(permission, force)
     THEN {Raise(st, "permission_cannot_remove_main", "", {})}
     ELSE IF ListRaises(st)
     THEN {Raise(st, "KeyError", "", {})}
     ELSE IF permission \notin DOMAIN user_permission_list(st, FALSE, TRUE)
     THEN {Raise(st, "permission_not_found", NameStr(permission), {})}
     ELSE IF fault.kind = "remove"
     THEN {Raise(st, "permission_deletion_failed", NameStr(permission), {})}
     ELSE MaybeSync(LdapRemove(st, permission), grps, sync_perm, fault,
                    {<<"remove", permission>>})

(***************************************************************************)
(* permission_create                                                       *)
(***************************************************************************)
\* The outcomes of `first`, each followed by `next(r)` when it returned.
\* The result keeps what `first` returned and the hooks it called.
Then(first, next(_)) ==
  UNION {IF r.err # "none" THEN {r}
         ELSE {[q EXCEPT !.ret = IF q.err = "none" THEN r.ret ELSE None,
                         !.events = r.events \o q.events,
                         !.warnings = r.warnings \cup q.warnings] : q \in next(r)}
           : r \in first}

\* Mutant: the uniqueness of the name is not checked.
get_conflict_Never(st, permission) == FALSE

\* ldap.get_conflict({'cn': permission}, base_dn='ou=permission,...')
get_conflict(st, permission) == permission \in DOMAIN st

\* Lines 270-312: the checks and ldap.add of the entry with its dummy values.
permission_create_add(st, grps, name, allowed, fault) ==
  LET permission == MainByDefault(name)
      groups_to_add == IF allowed = None THEN <<>> ELSE allowed[1]
      unknown == {i \in DOMAIN groups_to_add : groups_to_add[i] \notin DOMAIN grps}
  IN IF get_conflict(st, permission)
     THEN {Raise(st, "permission_already_exist", NameStr(permission), {})}
     ELSE IF unknown # {}
     THEN {Raise(st, "group_unknown",
                 groups_to_add[CHOOSE i \in unknown : \A j \in unknown : i <= j], {})}
     ELSE IF fault.kind = "add"
     THEN {Raise(st, "permission_creation_failed", NameStr(permission), {})}
     ELSE {Outcome(LdapAdd(st, permission, NewEntry(permission)), "none", "",
                   {<<"add", permission>>}, "none")}

\* Lines 314-322, on the store st as it is once the entry is added; w are
\* the writes of the call so far.
permission_create_finish(st, grps, name, allowed, url, additional_urls, auth_header, label, show_tile, protected, sync_perm, fault, w) ==
  LET permission == MainByDefault(name)
      SetUrls(r) == permission_url(r.st, grps, permission, url, additional_urls, <<>>,
                                   Some(auth_header), FALSE, sync_perm, fault, r.writes)
  IN IF permission \notin DOMAIN st
     THEN {Raise(st, "KeyError", "", w)}
     ELSE Then(update_ldap_group_permission(st, grps, permission, allowed, label,
                                            Some(show_tile), Some(protected), FALSE,
                                            fault, w),
               SetUrls)

permission_create(st, grps, name, allowed, url, additional_urls, auth_header, label, show_tile, protected, sync_perm, fault) ==
  UNION {IF r.err # "none" THEN {r}
         ELSE permission_create_finish(r.st, grps, name, allowed, url, additional_urls,
                                       auth_header, label, show_tile, protected, sync_perm,
                                       fault, r.writes)
           : r \in permission_create_add(st, grps, name, allowed, fault)}

(***************************************************************************)
(* The state machine.  A caller invokes one operation at a time (section 5 *)
(* of the specification: single-threaded, request per call).  `last` holds *)
(* the call that just returned: its arguments, the store it found (pre)    *)
(* and its outcome; Forget drops it before the next call.  `pending` holds *)
(* the position of each caller that is inside a call when calls overlap.   *)
(***************************************************************************)
Idle == [op |-> "idle"]

\* The callers that may have a call in flight, and the position of each:
\* none of them is inside a call.
Callers == {"c1", "c2"}

NotCalling == [pc |-> "out"]

NoCalls == [c \in Callers |-> NotCalling]

Returned(op, name, args, fault, r) ==
  [op |-> op, name |-> name, perm |-> MainByDefault(name), args |-> args,
   fault |-> fault, pre |-> store, repeat |-> last.op = op /\ last.err = "none",
   err |-> r.err, errArg |-> r.errArg, writes |-> r.writes, sync |-> r.sync,
   warnings |-> r.warnings, ret |-> r.ret, events |-> r.events]

Call(op, name, args, fault, outcomes) ==
  \E r \in outcomes :
    /\ store' = r.st
    /\ last' = Returned(op, name, args, fault, r)
    /\ UNCHANGED <<groups, pending>>

\* The calls of a specification: the names, the argument records and the
\* store faults its callers draw from.
UpdateArgs(adds, removes, protecteds, forces, syncs) ==
  [add : adds, remove : removes, label : {None}, show_tile : {None},
   protected : protecteds, force : forces, sync_perm : syncs]

CreateArgs(alloweds, urls, protecteds, syncs) ==
  [allowed : alloweds, url : urls, additional_urls : {<<>>}, auth_header : {TRUE},
   label : {None}, show_tile : {FALSE}, protected : protecteds, sync_perm : syncs]

UrlArgs(urls, adds, removes, syncs) ==
  [url : urls, add_url : adds, remove_url : removes, auth_header : {None},
   clear_urls : {FALSE}, sync_perm : syncs]

UserPermissionUpdate(names, calls, faults) ==
  /\ last.op = "idle"
  /\ \E name \in names, a \in calls, f \in faults :
       Call("update", name, a, f,
            user_permission_update(store, groups, name, a.add, a.remove, a.label,
                                   a.show_tile, a.protected, a.force, a.sync_perm, f))

\* A reset may follow a reset of the same permission directly (twice in a row).
UserPermissionReset(names, syncs, faults) ==
  \E name \in names, sp \in syncs, f \in faults :
    /\ last.op = "idle" \/ (last.op = "reset" /\ last.name = name /\ ~last.repeat)
    /\ Call("reset", name, [sync_perm |-> sp], f,
            user_permission_reset(store, groups, name, sp, f))

\* The store holds at most `max` permissions.
PermissionCreate(names, calls, faults, max) ==
  /\ last.op = "idle"
  /\ \E name \in names, a \in calls, f \in faults :
       /\ MainByDefault(name) \in DOMAIN store \/ Cardinality(DOMAIN store) < max
       /\ Call("create", name, a, f,
               permission_create(store, groups, name, a.allowed, a.url, a.additional_urls,
                                 a.auth_header, a.label, a.show_tile, a.protected,
                                 a.sync_perm, f))

PermissionUrl(names, calls, faults) ==
  /\ last.op = "idle"
  /\ \E name \in names, a \in calls, f \in faults :
       Call("url", name, a, f,
            permission_url(store, groups, name, a.url, a.add_url, a.remove_url,
                           a.auth_header, a.clear_urls, a.sync_perm, f, {}))

PermissionDelete(names, forces, syncs, faults) ==
  /\ last.op = "idle"
  /\ \E name \in names, force \in forces, sp \in syncs, f \in faults :
       Call("delete", name, [force |-> force, sync_perm |-> sp], f,
            permission_delete(store, groups, name, force, sp, f))

PermissionSyncToUser(faults) ==
  /\ last.op = "idle"
  /\ \E f \in faults :
       Call("sync", NoName, [sync_perm |-> TRUE], f,
            permission_sync_to_user(store, groups, f))

\* user_group_update of yunohost.user: one of `users` joins or leaves the
\* custom group.
UserGroupUpdate(users) ==
  /\ last.op = "idle"
  /\ \E u \in users :
       groups' = [groups EXCEPT !["grpA"] =
                    IF u \in @ THEN @ \ {u} ELSE @ \cup {u}]
  /\ UNCHANGED <<store, last, pending>>

Forget ==
  /\ last.op # "idle"
  /\ last' = Idle
  /\ UNCHANGED <<store, groups, pending>>

Init ==
  /\ store = <<>>
  /\ groups = [g \in GroupNames |-> IF g = "all_users" THEN Users
                                    ELSE IF g = "grpA" THEN {"u1"} ELSE {}]
  /\ last = Idle
  /\ pending = NoCalls

(***************************************************************************)
(* Spec: every operation, on a store that never fails and with the group   *)
(* directory left alone.                                                   *)
(***************************************************************************)
\* Urls are set on the permissions of the installed app only.
AppNames == {n \in Identities : n.app = "myapp"} \cup {[app |-> "myapp", sub |-> ""]}

SpecNames == Identities \cup {[app |-> "myapp", sub |-> ""]}

Adds == {<<>>, <<"visitors">>, <<"ghost">>}

Removes == {<<>>, <<"visitors">>}

Next ==
  \/ UserPermissionUpdate(SpecNames, UpdateArgs(Adds, Removes, {None}, BOOLEAN, BOOLEAN),
                          {NoFault})
  \/ UserPermissionReset(SpecNames, BOOLEAN, {NoFault})
  \/ PermissionCreate(SpecNames,
                      CreateArgs({Some(<<"all_users">>), Some(<<"visitors">>)}, {None},
                                 BOOLEAN, {TRUE}),
                      {NoFault}, MaxPerms)
  \/ PermissionUrl(AppNames, UrlArgs({Some(<<"/", "a", "/">>)}, {<<>>}, {<<>>}, {TRUE}),
                   {NoFault})
  \/ PermissionDelete(SpecNames, BOOLEAN, BOOLEAN, {NoFault})
  \/ PermissionSyncToUser({NoFault})
  \/ Forget

Spec == Init /\ [][Next]_vars

(***************************************************************************)
(* SpecSync: the synchronisation pass, over several permissions, with a    *)
(* group whose membership changes and writes of the inheritance fields     *)
(* that may fail.                                                          *)
(***************************************************************************)
MaxSyncPerms == 2

SyncNames ==
  {[app |-> "myapp", sub |-> "main"], [app |-> "myapp", sub |-> "editors"],
   [app |-> "mail", sub |-> "main"]}

SyncFaults == {NoFault} \cup {[kind |-> "inherit", at |-> p] : p \in SyncNames}

NextSync ==
  \/ UserPermissionUpdate(SyncNames,
                          UpdateArgs({<<"grpA">>}, {<<>>, <<"grpA">>}, {None}, {FALSE},
                                     BOOLEAN),
                          {NoFault})
  \/ UserPermissionReset(SyncNames, {FALSE}, {NoFault})
  \/ PermissionCreate(SyncNames,
                      CreateArgs({Some(<<"all_users">>), Some(<<"grpA">>)},
                                 {Some(<<"/", "a", "/">>)}, {FALSE}, BOOLEAN),
                      {NoFault}, MaxSyncPerms)
  \/ PermissionUrl(SyncNames, UrlArgs({Some(<<"/", "a", "/">>)}, {<<>>}, {<<>>}, {TRUE}),
                   {NoFault})
  \/ PermissionDelete(SyncNames, {TRUE}, BOOLEAN, {NoFault})
  \/ PermissionSyncToUser(SyncFaults)
  \/ UserGroupUpdate({"u2"})
  \/ Forget

SpecSync == Init /\ [][NextSync]_vars

(***************************************************************************)
(* What the claims read.                                                   *)
(***************************************************************************)
\* The record `list` shows for a permission of store st.
Shown(st, p) == PermissionInfos(st[p], p, FALSE)

\* The system permissions as the specification names them.
SpecSystemApps == {"mail", "xmpp", "sftp"}

\* The call that just returned is `op` on a permission that existed.
ReturnedOnExisting(op) == last.op = op /\ last.perm \in DOMAIN last.pre

(***************************************************************************)
(* C2: in every reachable state, no permission of the apps mail, xmpp or   *)
(* sftp has "visitors" in its allowed set.                                 *)
(***************************************************************************)
C2_SystemPermsNeverAllowVisitors ==
  \A p \in DOMAIN store :
    p.app \in SpecSystemApps => "visitors" \notin Shown(store, p).allowed

(***************************************************************************)
(* C3: user_permission_update on a permission of mail, xmpp or sftp with   *)
(* "visitors" among the groups to add fails with permission_require_account *)
(* and leaves the store unchanged, whatever force is.                      *)
(***************************************************************************)
C3_VisitorsOnSystemPermRequireAccount ==
  (/\ ReturnedOnExisting("update")
   /\ last.perm.app \in SpecSystemApps
   /\ "visitors" \in Range(last.args.add))
  => (last.err = "permission_require_account" /\ store = last.pre)

(***************************************************************************)
(* C4.  The claim as stated: on an existing protected permission, an       *)
(* update with "visitors" among the groups to add or remove and force      *)
(* false fails with permission_protected and leaves the store unchanged;   *)
(* the add call with force true succeeds and "visitors" is then allowed.   *)
(***************************************************************************)
OnProtected ==
  ReturnedOnExisting("update") /\ Shown(last.pre, last.perm).protected

AddsVisitors == "visitors" \in Range(last.args.add)

RemovesVisitors == "visitors" \in Range(last.args.remove)

C4_AsStated ==
  /\ (OnProtected /\ (AddsVisitors \/ RemovesVisitors) /\ ~last.args.force)
       => (last.err = "permission_protected" /\ store = last.pre)
  /\ (OnProtected /\ AddsVisitors /\ ~RemovesVisitors /\ last.args.force)
       => (last.err = "none" /\ "visitors" \in Shown(store, last.perm).allowed)

(***************************************************************************)
(* C4 as amended: on an existing protected permission, an update that adds *)
(* "visitors" to a permission whose app is in the code's SYSTEM_PERMS      *)
(* fails with permission_require_account whatever force is; any other      *)
(* update with "visitors" among the groups to add or remove and force      *)
(* false fails with permission_protected; both leave the store unchanged.  *)
(* With force true, the add call on a permission outside SYSTEM_PERMS      *)
(* writes the new allowed set, so that "visitors" is allowed afterwards,   *)
(* and it returns unless the synchronisation pass after the write raises.  *)
(***************************************************************************)
AccountRequiredCase == AddsVisitors /\ last.perm.app \in SYSTEM_PERMS

C4_ProtectedGuard ==
  /\ (OnProtected /\ AccountRequiredCase)
       => (last.err = "permission_require_account" /\ store = last.pre)
  /\ (OnProtected /\ (AddsVisitors \/ RemovesVisitors) /\ ~last.args.force
        /\ ~AccountRequiredCase)
       => (last.err = "permission_protected" /\ store = last.pre)
  /\ (OnProtected /\ AddsVisitors /\ ~RemovesVisitors /\ last.args.force
        /\ ~AccountRequiredCase)
       => /\ "visitors" \in Shown(store, last.perm).allowed
          /\ last.err = "none" \/ last.sync = "failed"

\* A forced add of "visitors" to a protected permission has returned.
C4_Witness ==
  /\ OnProtected /\ AddsVisitors /\ last.args.force
  /\ last.err = "none"
  /\ "visitors" \in Shown(store, last.perm).allowed
  /\ "visitors" \notin Shown(last.pre, last.perm).allowed

(***************************************************************************)
(* C5: user_permission_update on an identity that is not in the store      *)
(* fails with permission_not_found, whatever add, remove and force are.    *)
(***************************************************************************)
C5_UpdateOfAbsentIsNotFound ==
  (last.op = "update" /\ last.perm \notin DOMAIN last.pre)
  => last.err = "permission_not_found"

(***************************************************************************)
(* C6: after user_permission_reset returns on an existing permission whose *)
(* allowed set was not {"all_users"}, its allowed set is {"all_users"}.    *)
(***************************************************************************)
C6_ResetLeavesAllUsers ==
  (/\ ReturnedOnExisting("reset")
   /\ last.err = "none"
   /\ Shown(last.pre, last.perm).allowed # {"all_users"})
  => Shown(store, last.perm).allowed = {"all_users"}

(***************************************************************************)
(* C7: the second of two resets in a row of an existing permission only    *)
(* logs the advisory and writes nothing, and the allowed set is            *)
(* {"all_users"} after it.                                                 *)
(***************************************************************************)
C7_SecondResetIsNoOp ==
  (ReturnedOnExisting("reset") /\ last.repeat)
  => /\ last.writes = {}
     /\ last.warnings = {"permission_already_up_to_date"}
     /\ Shown(store, last.perm).allowed = {"all_users"}

(***************************************************************************)
(* C10: permission_delete of a main permission (a bare app id included)    *)
(* without force fails with permission_cannot_remove_main and keeps the    *)
(* store; with force, an existing entry is removed; an absent identity     *)
(* (with force, or not a main one) fails with permission_not_found and     *)
(* keeps the store.                                                        *)
(***************************************************************************)
C10_Delete ==
  last.op = "delete" =>
    /\ (last.perm.sub = "main" /\ ~last.args.force)
         => (last.err = "permission_cannot_remove_main" /\ store = last.pre)
    /\ (last.args.force /\ last.perm \in DOMAIN last.pre)
         => (last.perm \notin DOMAIN store
             /\ \A q \in DOMAIN last.pre \ {last.perm} : q \in DOMAIN store)
    /\ (last.perm \notin DOMAIN last.pre /\ (last.args.force \/ last.perm.sub # "main"))
         => (last.err = "permission_not_found" /\ store = last.pre)

\* A forced delete of a main permission, named by its bare app id, has
\* removed the entry.
C10_Witness ==
  /\ last.op = "delete" /\ last.name.sub = "" /\ last.args.force
  /\ last.perm \in DOMAIN last.pre
  /\ last.perm \notin DOMAIN store
  /\ last.err = "none"

(***************************************************************************)
(* The synchronisation pass.                                               *)
(***************************************************************************)
\* The users the groups allowed for p hold, read from the group directory.
MembersOfAllowed(st, p) ==
  {u \in Users : \E g \in Shown(st, p).allowed \cap DOMAIN groups : u \in groups[g]}

\* Every group allowed for p is in the group directory.
AllowedGroupsExist(st, p) == Shown(st, p).allowed \subseteq DOMAIN groups

\* The inheritance field of p is the union of the members of its groups.
Synchronized(st, p) ==
  AllowedGroupsExist(st, p) /\ Shown(st, p).corresponding_users = MembersOfAllowed(st, p)

InheritWritten(p) == <<"inherit", p>> \in last.writes

(***************************************************************************)
(* C1: after a synchronisation pass that completed without error, alone or *)
(* at the end of any operation, corresponding_users of every permission is *)
(* the union of the members of the groups in its allowed set.              *)
(***************************************************************************)
C1_SynchronizedAfterPass ==
  (last.op # "idle" /\ last.sync = "ok")
  => \A p \in DOMAIN store : Synchronized(store, p)

\* A pass over two permissions has rewritten one that allows the custom group.
C1_Witness ==
  /\ last.op = "sync" /\ last.sync = "ok"
  /\ Cardinality(DOMAIN store) >= 2
  /\ \E p \in DOMAIN store :
       /\ InheritWritten(p)
       /\ "grpA" \in Shown(store, p).allowed
       /\ Shown(store, p).corresponding_users # {}

(***************************************************************************)
(* C8: the pass writes the inheritance fields of a permission only when    *)
(* its stored corresponding_users differs from the recomputed membership   *)
(* (the write changes the stored value); when every permission is already  *)
(* synchronized the pass writes nothing.                                   *)
(***************************************************************************)
C8_SyncWritesOnlyChanges ==
  /\ last.op = "sync" =>
       /\ \A p \in DOMAIN last.pre : InheritWritten(p) => ~Synchronized(last.pre, p)
       /\ (\A p \in DOMAIN last.pre : Synchronized(last.pre, p))
            => (last.writes = {} /\ store = last.pre)
  /\ last.op # "idle" =>
       \A p \in DOMAIN store :
         InheritWritten(p) =>
           Shown(store, p).corresponding_users #
             (IF p \in DOMAIN last.pre THEN Shown(last.pre, p).corresponding_users ELSE {})

\* A pass has skipped a synchronized permission and rewritten another.
C8_Witness ==
  /\ last.op = "sync" /\ last.err = "none"
  /\ \E p, q \in DOMAIN last.pre :
       /\ InheritWritten(p)
       /\ ~InheritWritten(q) /\ Synchronized(last.pre, q)
       /\ Shown(last.pre, q).corresponding_users # {}

(***************************************************************************)
(* C9.  The claim as stated: when the write of one permission fails, the   *)
(* pass still reconciles every other permission and reports the failure    *)
(* naming the failed permission.                                           *)
(***************************************************************************)
SyncWriteFailed == last.op = "sync" /\ last.err = "permission_update_failed"

MaxUrlPerms == 1

UrlNames ==
  {[app |-> "myapp", sub |-> "main"], [app |-> "myapp", sub |-> "editors"],
   [app |-> "myapp", sub |-> ""], [app |-> "mail", sub |-> "main"]}

\* "/a/", "/b" and "/c/" as Python strs.
UrlA == <<"/", "a", "/">>

UrlB == <<"/", "b">>

UrlC == <<"/", "c", "/">>

CreateUrlArgs ==
  [allowed : {Some(<<"all_users">>), Some(<<"all_users", "ghost">>)},
   url : {None, Some(UrlA)}, additional_urls : {<<>>, <<UrlB>>},
   auth_header : BOOLEAN, label : {None}, show_tile : {FALSE}, protected : {FALSE},
   sync_perm : BOOLEAN]

NextUrl ==
  \/ PermissionCreate(UrlNames, CreateUrlArgs, {NoFault}, MaxUrlPerms)
  \/ PermissionUrl(UrlNames,
                   UrlArgs({None, Some(UrlA)}, {<<>>, <<UrlB>>, <<UrlB, UrlC>>},
                           {<<>>, <<UrlB>>}, {FALSE}),
                   {NoFault})
  \/ PermissionDelete(UrlNames, {TRUE}, {FALSE}, {NoFault})
  \/ Forget

SpecUrl == Init /\ [][NextUrl]_vars

(***************************************************************************)
(* C11: permission_create on an identity that is already in the store      *)
(* fails with permission_already_exist; on an identity that is not, with a *)
(* group of `allowed` missing from the group directory, it fails with      *)
(* group_unknown; in both cases it writes nothing and the store is the one *)
(* it found.                                                               *)
(***************************************************************************)
CreateAllowed == IF last.args.allowed = None THEN {} ELSE Range(last.args.allowed[1])

C11_CreateRefusals ==
  last.op = "create" =>
    /\ last.perm \in DOMAIN last.pre
         => /\ last.err = "permission_already_exist"
            /\ store = last.pre /\ last.writes = {}
    /\ (last.perm \notin DOMAIN last.pre /\ ~(CreateAllowed \subseteq DOMAIN groups))
         => /\ last.err = "group_unknown"
            /\ store = last.pre /\ last.writes = {}

\* A create of an identity that exists, with arguments that differ from
\* what is stored, has been refused.
C11_Witness ==
  /\ last.op = "create" /\ last.err = "permission_already_exist"
  /\ last.perm \in DOMAIN store
  /\ last.args.url # store[last.perm].URL
  /\ store = last.pre

(***************************************************************************)
(* C12: the record a successful permission_create returns is the full     *)
(* record of the permission as stored when create finishes (url,           *)
(* additional_urls and auth_header included).                              *)
(***************************************************************************)
C12_CreateReturnsStoredRecord ==
  (last.op = "create" /\ last.err = "none")
  => last.ret = Some(user_permission_list(store, FALSE, TRUE)[last.perm])

(***************************************************************************)
(* C13: after permission_url succeeds with urls to add (none to remove),   *)
(* every add_url entry that was not among additional_urls is there in      *)
(* validated form, an entry that was there produces the warning, and       *)
(* nothing but add_url entries has been added.                             *)
(***************************************************************************)
StoredAdditionalUrls(st, p) ==
  {u[1] : u \in PermissionInfos(st[p], p, FALSE).additional_urls \ {None}}

C13_AddUrlAddsItsEntries ==
  (/\ ReturnedOnExisting("url") /\ last.err = "none"
   /\ last.args.add_url # <<>> /\ last.args.remove_url = <<>>)
  => LET before == StoredAdditionalUrls(last.pre, last.perm)
         after == StoredAdditionalUrls(store, last.perm)
         added == Range(last.args.add_url)
     IN /\ \A u \in added \ before : check_and_normalize_permission_path(u) \in after
        /\ \A u \in added \cap before : "additional_urls_already_added" \in last.warnings
        /\ after \ before \subseteq {check_and_normalize_permission_path(u) : u \in added}

(***************************************************************************)
(* SpecCompleteUrl: _complete_url applied to every fragment of bounded     *)
(* length over the characters that decide its branches.                    *)
(***************************************************************************)
MaxFragmentLen == 5

FragmentChars == {"/", "r", "e", ":", "a"}

Fragments ==
  {None} \cup {Some(f) : f \in UNION {[1..n -> FragmentChars] : n \in 0..MaxFragmentLen}}

InitCompleteUrl ==
  /\ store = <<>>
  /\ groups = [g \in GroupNames |-> IF g = "all_users" THEN Users ELSE {}]
  /\ pending = NoCalls
  /\ last \in {[op |-> "fragment", url |-> u] : u \in Fragments}

\* _complete_url(url, name) for a permission of the installed app.
CompleteUrl ==
  /\ last.op = "fragment"
  /\ \E name \in {n \in Identities : n.app \in DOMAIN app_settings} :
       last' = [op |-> "complete_url", url |-> last.url, name |-> name,
                out |-> complete_url(last.url, name)]
  /\ UNCHANGED <<store, groups, pending>>

NextCompleteUrl == CompleteUrl

SpecCompleteUrl == InitCompleteUrl /\ [][NextCompleteUrl]_vars

(***************************************************************************)
(* C14: _complete_url gives None for None; for a fragment starting with    *)
(* "/", the app's domain+path followed by the fragment without its         *)
(* trailing slashes; for a fragment starting with "re:/", "re:" followed   *)
(* by the app's domain+path followed by the fragment's path part, its      *)
(* leading "/" and all its characters kept; any other fragment unchanged.  *)
(***************************************************************************)
\* The path part of "re:/...": what follows the "re:" marker.
PathPart(fragment) == SubSeq(fragment, 4, Len(fragment))

C14_CompleteUrl ==
  last.op = "complete_url" =>
    last.out =
      IF last.url = None THEN None
      ELSE IF StartsWith(last.url[1], <<"/">>)
           THEN Some(app_settings[last.name.app] \o RStrip(last.url[1], {"/"}))
      ELSE IF StartsWith(last.url[1], <<"r", "e", ":", "/">>)
           THEN Some(<<"r", "e", ":">> \o app_settings[last.name.app]
                     \o PathPart(last.url[1]))
      ELSE last.url

(***************************************************************************)
(* SpecNotify: group updates of one permission and the hooks they call,    *)
(* over a group directory with two overlapping custom groups and the       *)
(* primary group of a user (a group that bears the user's name).           *)
(***************************************************************************)
MaxNotifyPerms == 1

NotifyUsers == {"u1", "u2", "u3"}

NotifyGroups ==
  [g \in {"all_users", "visitors", "grpA", "grpB", "u3"} |->
     IF g = "all_users" THEN NotifyUsers
     ELSE IF g = "grpA" THEN {"u1", "u2"}
     ELSE IF g = "grpB" THEN {"u2", "u3"}
     ELSE IF g = "u3" THEN {"u3"}
     ELSE {}]

NotifyNames ==
  {[app |-> "myapp", sub |-> "main"], [app |-> "myapp", sub |-> ""],
   [app |-> "myapp", sub |-> "editors"]}

NotifyAdds == {<<>>, <<"grpA">>, <<"grpB">>, <<"u3">>, <<"grpB", "u3">>}

NotifyRemoves == {<<>>, <<"grpA">>, <<"grpB">>}

InitNotify ==
  /\ store = <<>>
  /\ groups = NotifyGroups
  /\ last = Idle
  /\ pending = NoCalls

\* permission_sync_to_user called right after a permission_create that ran
\* no synchronisation pass; `created` keeps the permission just created.
SyncAfterCreate ==
  /\ last.op = "create" /\ last.err = "none" /\ ~last.args.sync_perm
  /\ \E r \in permission_sync_to_user(store, groups, NoFault) :
       /\ store' = r.st
       /\ last' = [created |-> last.perm, allowed |-> last.args.allowed]
                    @@ Returned("sync", NoName, [sync_perm |-> TRUE], NoFault, r)
  /\ UNCHANGED <<groups, pending>>

NextNotify ==
  \/ PermissionCreate(NotifyNames,
                      CreateArgs({Some(<<"all_users">>), Some(<<"grpA">>)}, {None}, {FALSE},
                                 BOOLEAN),
                      {NoFault}, MaxNotifyPerms)
  \/ UserPermissionUpdate(NotifyNames,
                          UpdateArgs(NotifyAdds, NotifyRemoves, {None}, {FALSE}, BOOLEAN),
                          {NoFault})
  \/ SyncAfterCreate
  \/ PermissionSyncToUser({NoFault})
  \/ PermissionDelete(NotifyNames, {TRUE}, {FALSE}, {NoFault})
  \/ Forget

SpecNotify == InitNotify /\ [][NextNotify]_vars

\* A group update of an existing permission has returned.
Updated == ReturnedOnExisting("update") /\ last.err = "none"

PreRecord == Shown(last.pre, last.perm)

PostRecord == Shown(store, last.perm)

AddedUsers == PostRecord.corresponding_users \ PreRecord.corresponding_users

RemovedUsers == PreRecord.corresponding_users \ PostRecord.corresponding_users

AddedGroups == (PostRecord.allowed \ PreRecord.allowed) \ AddedUsers

RemovedGroups == (PreRecord.allowed \ PostRecord.allowed) \ RemovedUsers

EventsOf(hook) == {i \in DOMAIN last.events : last.events[i].hook = hook}

(***************************************************************************)
(* C15: after a group update (and its synchronisation pass, when asked),   *)
(* with the four sets computed from the records before and after, exactly  *)
(* one post_app_addaccess is emitted iff added users or added groups is    *)
(* non-empty, exactly one post_app_removeaccess iff removed users or       *)
(* removed groups is non-empty, each carrying the app, the sub-permission  *)
(* and its two sets, and nothing else is emitted.                          *)
(***************************************************************************)
C15_NotifierDiff ==
  Updated =>
    /\ Cardinality(EventsOf("post_app_addaccess"))
         = IF AddedUsers # {} \/ AddedGroups # {} THEN 1 ELSE 0
    /\ Cardinality(EventsOf("post_app_removeaccess"))
         = IF RemovedUsers # {} \/ RemovedGroups # {} THEN 1 ELSE 0
    /\ \A i \in EventsOf("post_app_addaccess") :
         last.events[i].users = AddedUsers /\ last.events[i].groups = AddedGroups
    /\ \A i \in EventsOf("post_app_removeaccess") :
         last.events[i].users = RemovedUsers /\ last.events[i].groups = RemovedGroups
    /\ \A i \in DOMAIN last.events :
         /\ last.events[i].hook \in {"post_app_addaccess", "post_app_removeaccess"}
         /\ last.events[i].app = last.perm.app /\ last.events[i].sub = last.perm.sub

\* An update has added the primary group of a user together with another
\* group: the user is among the added users, its group is not among the
\* added groups.
C15_Witness ==
  /\ Updated
  /\ "u3" \in AddedUsers
  /\ "u3" \in PostRecord.allowed \ PreRecord.allowed
  /\ AddedGroups = {"grpB"}
  /\ Cardinality(EventsOf("post_app_addaccess")) = 1

(***************************************************************************)
(* C16.  The claim as stated: from allowed {grpA}, users {u1, u2} to       *)
(* allowed {grpB}, users {u2, u3}, the notifier computes added users {u3}  *)
(* and removed users {u1}, and the events carry no group.                  *)
(***************************************************************************)
FromGrpAToGrpB ==
  /\ Updated
  /\ PreRecord.allowed = {"grpA"} /\ PreRecord.corresponding_users = {"u1", "u2"}
  /\ PostRecord.allowed = {"grpB"} /\ PostRecord.corresponding_users = {"u2", "u3"}

C16_AsStated ==
  FromGrpAToGrpB =>
    /\ \E i \in DOMAIN last.events :
         last.events[i].hook = "post_app_addaccess" /\ last.events[i].users = {"u3"}
    /\ \E i \in DOMAIN last.events :
         last.events[i].hook = "post_app_removeaccess" /\ last.events[i].users = {"u1"}
    /\ \A i \in DOMAIN last.events : last.events[i].groups = {}

(***************************************************************************)
(* C16 as amended: from allowed {grpA}, users {u1, u2} to allowed {grpB},  *)
(* users {u2, u3}, the notifier emits post_app_addaccess with users {u3}   *)
(* and groups {grpB}, then post_app_removeaccess with users {u1} and       *)
(* groups {grpA}: a group is left out of the group diff only when it bears *)
(* the name of an added or removed user.                                   *)
(***************************************************************************)
C16_GroupDiffEmitted ==
  FromGrpAToGrpB =>
    last.events =
      << [hook |-> "post_app_addaccess", app |-> last.perm.app, users |-> {"u3"},
          sub |-> last.perm.sub, groups |-> {"grpB"}],
         [hook |-> "post_app_removeaccess", app |-> last.perm.app, users |-> {"u1"},
          sub |-> last.perm.sub, groups |-> {"grpA"}] >>

\* The update from {grpA} to {grpB} has returned after its pass.
C16_Witness ==
  /\ FromGrpAToGrpB
  /\ last.args.sync_perm
  /\ Len(last.events) = 2

(***************************************************************************)
(* C17: after permission_create with allowed = [all_users] and no          *)
(* synchronisation pass, the listing shows allowed {all_users} and no      *)
(* corresponding user; after a pass that follows and returns, it shows     *)
(* allowed {all_users} and every member of all_users.                      *)
(***************************************************************************)
C17_CreateThenSync ==
  /\ (/\ last.op = "create" /\ last.err = "none" /\ ~last.args.sync_perm
      /\ last.args.allowed = Some(<<"all_users">>))
       => LET shown == user_permission_list(store, FALSE, TRUE)[last.perm]
          IN shown.allowed = {"all_users"} /\ shown.corresponding_users = {}
  /\ (/\ last.op = "sync" /\ "created" \in DOMAIN last /\ last.err = "none"
      /\ last.allowed = Some(<<"all_users">>))
       => LET shown == user_permission_list(store, FALSE, TRUE)[last.created]
          IN /\ shown.allowed = {"all_users"}
             /\ shown.corresponding_users = groups["all_users"]

\* The pass after the create has written the members of all_users.
C17_Witness ==
  /\ last.op = "sync" /\ "created" \in DOMAIN last /\ last.err = "none"
  /\ last.allowed = Some(<<"all_users">>)
  /\ Shown(last.pre, last.created).corresponding_users = {}
  /\ Shown(store, last.created).corresponding_users = NotifyUsers
  /\ InheritWritten(last.created)

(***************************************************************************)
(* C18: after a successful user_permission_update with groups to add A     *)
(* (all in the group directory) and groups to remove R, the stored allowed *)
(* set is (allowed before, with A) without R; a group of A already allowed *)
(* and a group of R already absent only produce a warning.                 *)
(***************************************************************************)
C18_AddThenRemove ==
  Updated =>
    /\ PostRecord.allowed
         = (PreRecord.allowed \cup Range(last.args.add)) \ Range(last.args.remove)
    /\ Range(last.args.add) \cap PreRecord.allowed # {}
         => "permission_already_allowed" \in last.warnings
    /\ Range(last.args.remove) \ PreRecord.allowed # {}
         => "permission_already_disallowed" \in last.warnings

\* An update named one group both to add and to remove, and added another.
C18_Witness ==
  /\ Updated
  /\ \E g \in Range(last.args.add) \cap Range(last.args.remove) :
       g \notin PreRecord.allowed /\ g \notin PostRecord.allowed
  /\ \E h \in Range(last.args.add) : h \notin PreRecord.allowed /\ h \in PostRecord.allowed

(***************************************************************************)
(* C20: user_permission_update writes the group attributes of a permission *)
(* only when the allowed set it writes differs from the stored one: an     *)
(* update whose groups to add are all allowed already and whose groups to  *)
(* remove are all absent already issues no store write.                    *)
(***************************************************************************)
C20_UpdateWritesOnlyChanges ==
  ReturnedOnExisting("update") =>
    /\ <<"groups", last.perm>> \in last.writes => PostRecord.allowed # PreRecord.allowed
    /\ (/\ Range(last.args.add) \subseteq PreRecord.allowed
        /\ Range(last.args.remove) \cap PreRecord.allowed = {})
         => last.writes = {}

(***************************************************************************)
(* SpecRace: two callers inside user_permission_update at the same time    *)
(* (section 5 of the specification: nothing serialises two requests).  A   *)
(* call takes two steps: the read of line 126, then the rest of the call   *)
(* (checks, new list of groups, write, pass, hooks) taken as one step.     *)
(***************************************************************************)
\* The callers name one identity, in full or by its bare app id.
RaceNames == {[app |-> "myapp", sub |-> "main"], [app |-> "myapp", sub |-> ""]}

RaceAdds == {<<"grpA">>, <<"all_users">>}

\* No call is in flight.
Quiet == pending = NoCalls

\* Line 126: caller c enters user_permission_update, with a name and
\* arguments among those given, and reads the listing.
UpdateReadOf(c, names, calls) ==
  /\ last.op = "idle"
  /\ pending[c].pc = "out"
  /\ \E name \in names, a \in calls :
       pending' = [pending EXCEPT ![c] =
                     [pc |-> "read", name |-> name, perm |-> MainByDefault(name),
                      args |-> a, listing |-> user_permission_list(store, FALSE, FALSE)]]
  /\ UNCHANGED <<store, groups, last>>

UpdateRead(c) ==
  UpdateReadOf(c, RaceNames, UpdateArgs(RaceAdds, {<<>>}, {None}, {FALSE}, BOOLEAN))

\* Lines 129-189: the call of caller c goes on from what it read and returns.
UpdateCommit(c) ==
  /\ pending[c].pc = "read"
  /\ LET p == pending[c]
     IN \E r \in user_permission_update_from(p.listing, store, groups, p.name, p.args.add,
                   p.args.remove, p.args.label, p.args.show_tile, p.args.protected,
                   p.args.force, p.args.sync_perm, NoFault) :
          /\ store' = r.st
          /\ pending' = [pending EXCEPT ![c] =
                           [pc |-> "returned", name |-> p.name, perm |-> p.perm,
                            args |-> p.args, listing |-> p.listing, err |-> r.err,
                            writes |-> r.writes]]
  /\ UNCHANGED <<groups, last>>

\* Caller c is done with what its call returned.
Leave(c) ==
  /\ pending[c].pc \in {"returned", "created"}
  /\ pending' = [pending EXCEPT ![c] = NotCalling]
  /\ UNCHANGED <<store, groups, last>>

NextRace ==
  \/ Quiet /\ PermissionCreate(RaceNames,
                               CreateArgs({Some(<<"visitors">>), Some(<<"grpA">>)}, {None},
                                          {FALSE}, {FALSE}),
                               {NoFault}, Cardinality(RaceNames))
  \/ Quiet /\ PermissionDelete(RaceNames, {TRUE}, {FALSE}, {NoFault})
  \/ Quiet /\ Forget
  \/ \E c \in Callers : UpdateRead(c)
  \/ \E c \in Callers : UpdateCommit(c)
  \/ \E c \in Callers : Leave(c)

SpecRace == Init /\ [][NextRace]_vars

\* The one group the call of caller c adds.
GroupAdded(c) == pending[c].args.add[1]

\* Both calls have returned without error; they were on the same existing
\* permission, each adding a group that neither of them read as allowed.
BothReturnedAfterOverlap ==
  /\ \A c \in Callers : pending[c].pc = "returned" /\ pending[c].err = "none"
  /\ pending["c1"].perm = pending["c2"].perm
  /\ GroupAdded("c1") # GroupAdded("c2")
  /\ \A c \in Callers :
       /\ pending[c].perm \in DOMAIN pending[c].listing
       /\ pending[c].listing[pending[c].perm].allowed
            \cap {GroupAdded("c1"), GroupAdded("c2")} = {}

(***************************************************************************)
(* C19: when two user_permission_update calls on the same identity, each   *)
(* adding a different group, both read the permission before either        *)
(* writes, both succeed and the stored allowed set holds only one of the   *)
(* two groups: the one of the call that wrote last.                        *)
(***************************************************************************)
C19_LostUpdate ==
  BothReturnedAfterOverlap =>
    Cardinality(Shown(store, pending["c1"].perm).allowed
                  \cap {GroupAdded("c1"), GroupAdded("c2")}) = 1

\* Both calls have written and the group of caller c1 is lost.
C19_Witness ==
  /\ BothReturnedAfterOverlap
  /\ \A c \in Callers : <<"groups", pending[c].perm>> \in pending[c].writes
  /\ GroupAdded("c1") \notin Shown(store, pending["c1"].perm).allowed
  /\ GroupAdded("c2") \in Shown(store, pending["c1"].perm).allowed

(***************************************************************************)
(* C21: no operation called without force takes "visitors" out of the      *)
(* allowed set of a permission whose protected flag is true; in            *)
(* particular user_permission_reset of a protected permission that allows  *)
(* visitors leaves visitors allowed.                                       *)
(***************************************************************************)
CalledWithForce == "force" \in DOMAIN last.args /\ last.args.force

ProtectedAllowingVisitors(st, p) ==
  p \in DOMAIN st /\ Shown(st, p).protected /\ "visitors" \in Shown(st, p).allowed

C21_VisitorsKeptWithoutForce ==
  (last.op # "idle" /\ ~CalledWithForce)
  => \A p \in DOMAIN store :
       ProtectedAllowingVisitors(last.pre, p) => "visitors" \in Shown(store, p).allowed

(***************************************************************************)
(* SpecPlaceholder: permission_create and user_permission_update inside    *)
(* their calls at the same time.  permission_create takes two steps: the   *)
(* checks and ldap.add of the entry with its dummy values (lines 270-312), *)
(* then _update_ldap_group_permission and permission_url (lines 314-322).  *)
(***************************************************************************)
PlaceholderCreates ==
  CreateArgs({None, Some(<<"all_users">>)}, {None}, BOOLEAN, {FALSE})

PlaceholderUpdates ==
  UpdateArgs({<<"visitors">>, <<"grpA">>}, {<<>>}, {None}, {FALSE}, {FALSE})

\* Lines 270-312: caller c enters permission_create; the entry is added
\* with isProtected FALSE, or the call is refused.
CreateAdd(c) ==
  /\ last.op = "idle"
  /\ pending[c].pc = "out"
  /\ \E name \in RaceNames, a \in PlaceholderCreates :
       \E r \in permission_create_add(store, groups, name, a.allowed, NoFault) :
         /\ store' = r.st
         /\ pending' = [pending EXCEPT ![c] =
                          [pc |-> IF r.err = "none" THEN "added" ELSE "created",
                           name |-> name, perm |-> MainByDefault(name), args |-> a,
                           err |-> r.err, writes |-> r.writes]]
  /\ UNCHANGED <<groups, last>>

\* Lines 314-322: the call of caller c sets the final values and returns.
CreateFinish(c) ==
  /\ pending[c].pc = "added"
  /\ LET p == pending[c]
     IN \E r \in permission_create_finish(store, groups, p.name, p.args.allowed, p.args.url,
                   p.args.additional_urls, p.args.auth_header, p.args.label,
                   p.args.show_tile, p.args.protected, p.args.sync_perm, NoFault,
                   p.writes) :
          /\ store' = r.st
          /\ pending' = [pending EXCEPT ![c] =
                           [p EXCEPT !.pc = "created", !.err = r.err, !.writes = r.writes]]
  /\ UNCHANGED <<groups, last>>

NextPlaceholder ==
  \/ \E c \in Callers : CreateAdd(c)
  \/ \E c \in Callers : CreateFinish(c)
  \/ \E c \in Callers : UpdateReadOf(c, RaceNames, PlaceholderUpdates)
  \/ \E c \in Callers : UpdateCommit(c)
  \/ \E c \in Callers : Leave(c)
  \/ Quiet /\ PermissionDelete(RaceNames, {TRUE}, {FALSE}, {NoFault})
  \/ Quiet /\ Forget

SpecPlaceholder == Init /\ [][NextPlaceholder]_vars

\* Caller d has added the entry of a permission it creates with
\* protected = True (its call is in flight, or has returned without error).
CreatesProtected(d) ==
  /\ pending[d].pc \in {"added", "created"} /\ pending[d].err = "none"
  /\ pending[d].args.protected

\* The update of caller c, which adds "visitors" without force, has
\* returned; it read the permission after caller d added its entry.
VisitorsUpdateReturned(c, d) ==
  /\ pending[c].pc = "returned"
  /\ pending[c].perm = pending[d].perm
  /\ "visitors" \in Range(pending[c].args.add) /\ ~pending[c].args.force
  /\ pending[c].perm \in DOMAIN pending[c].listing

(***************************************************************************)
(* C22: while a permission is created with protected = True, a concurrent  *)
(* user_permission_update that adds "visitors" without force to the same   *)
(* identity never succeeds, however the two calls interleave.              *)
(***************************************************************************)
C22_PlaceholderNeverObserved ==
  \A c, d \in Callers :
    (c # d /\ CreatesProtected(d) /\ VisitorsUpdateReturned(c, d))
    => pending[c].err # "none"

(***************************************************************************)
(* SpecFrame: group updates, resets and url updates of one permission next *)
(* to other permissions, with both values of the authentication header     *)
(* flag.                                                                   *)
(***************************************************************************)
MaxFramePerms == 2

FrameNames ==
  {[app |-> "myapp", sub |-> "main"], [app |-> "myapp", sub |-> "editors"],
   [app |-> "mail", sub |-> "main"]}

FrameCreates ==
  [allowed : {Some(<<"all_users">>)}, url : {Some(UrlA)}, additional_urls : {<<>>},
   auth_header : BOOLEAN, label : {None}, show_tile : {FALSE}, protected : {FALSE},
   sync_perm : {FALSE}]

NextFrame ==
  \/ PermissionCreate(FrameNames, FrameCreates, {NoFault}, MaxFramePerms)
  \/ UserPermissionUpdate(FrameNames,
                          UpdateArgs({<<"grpA">>}, {<<>>}, {None}, {FALSE}, {TRUE}),
                          {NoFault})
  \/ UserPermissionReset(FrameNames, {FALSE}, {NoFault})
  \/ PermissionUrl(FrameNames \cap AppNames, UrlArgs({Some(UrlB)}, {<<>>}, {<<>>}, {FALSE}),
                   {NoFault})
  \/ PermissionDelete(FrameNames, {TRUE}, {FALSE}, {NoFault})
  \/ Forget

SpecFrame == Init /\ [][NextFrame]_vars

\* What the listing shows of the urls of a permission, and of its groups
\* and presentation.
UrlFields(st, p) ==
  [url |-> Shown(st, p).url, additional_urls |-> Shown(st, p).additional_urls,
   auth_header |-> Shown(st, p).auth_header]

GroupFields(st, p) ==
  [allowed |-> Shown(st, p).allowed, label |-> Shown(st, p).label,
   show_tile |-> Shown(st, p).show_tile, protected |-> Shown(st, p).protected]

\* This step is a call of one of `ops`.
CallOf(ops) == last' # last /\ last'.op \in ops

(***************************************************************************)
(* C23: user_permission_update and user_permission_reset leave url,        *)
(* additional_urls and auth_header of every permission as they were, and   *)
(* allowed, label, show_tile and protected of every other permission;      *)
(* permission_url leaves allowed, label, show_tile and protected of every  *)
(* permission as they were and, called without auth_header, keeps its      *)
(* value; no operation of the module changes the members of a group.       *)
(***************************************************************************)
C23_Frame ==
  [][/\ CallOf({"update", "reset"})
          => /\ DOMAIN store' = DOMAIN store
             /\ \A p \in DOMAIN store :
                  /\ UrlFields(store', p) = UrlFields(store, p)
                  /\ p # last'.perm => GroupFields(store', p) = GroupFields(store, p)
     /\ CallOf({"url"})
          => /\ DOMAIN store' = DOMAIN store
             /\ \A p \in DOMAIN store :
                  /\ GroupFields(store', p) = GroupFields(store, p)
                  /\ last'.args.auth_header = None
                       => Shown(store', p).auth_header = Shown(store, p).auth_header
     /\ CallOf({"update", "reset", "url", "create", "delete", "sync"})
          => groups' = groups
    ]_vars

\* permission_url, called without auth_header, has changed the url of a
\* permission whose flag was off, next to another permission.
C23_Witness ==
  /\ ReturnedOnExisting("url") /\ last.err = "none"
  /\ last.args.auth_header = None
  /\ ~Shown(last.pre, last.perm).auth_header
  /\ Shown(store, last.perm).url # Shown(last.pre, last.perm).url
  /\ Cardinality(DOMAIN store) >= 2

====
